---- MODULE Spec2Model ----
(***************************************************************************)
(* The per-session orchestrator AgentUnit of opendevin/server/agent/agent.py *)
(* as a state machine: one action per public operation (dispatch,           *)
(* set_agent_state, close), each modelling the whole handler including the  *)
(* synchronous subscriber callback on_event that every publish runs.        *)
(***************************************************************************)
EXTENDS Integers, Sequences, FiniteSets, TLC

(* ------------------------------------------------------------------ *)
(* Bounds of the model                                                  *)
(* ------------------------------------------------------------------ *)
\* longest EventStream log explored
MaxEvents == 2
\* most AgentController objects constructed in one session
MaxControllers == 2
\* most close() calls explored
MaxCloses == 2

(* ------------------------------------------------------------------ *)
(* Values                                                               *)
(* ------------------------------------------------------------------ *)
\* Python None for an Optional attribute or argument
None == "None"

\* the empty dict {}
EmptyMap == [k \in {} |-> ""]

\* opendevin.core.schema.AgentState, the six lifecycle states
AgentState == {"INIT", "RUNNING", "PAUSED", "STOPPED", "AWAITING_USER_INPUT", "FINISHED"}

\* opendevin.core.schema.ActionType.INIT, the request that bootstraps the controller
ActionType_INIT == "init"

\* new task state to valid old task states
VALID_TASK_STATE_MAP ==
    [PAUSED  |-> <<"RUNNING">>,
     RUNNING |-> <<"PAUSED">>,
     STOPPED |-> <<"RUNNING", "PAUSED", "AWAITING_USER_INPUT">>]

\* a variant of IGNORED_TASK_STATE_MAP whose row of STOPPED has no FINISHED
IGNORED_TASK_STATE_MAP_without_finished ==
    [PAUSED  |-> <<"INIT", "PAUSED", "STOPPED", "FINISHED", "AWAITING_USER_INPUT">>,
     RUNNING |-> <<"INIT", "RUNNING", "STOPPED", "FINISHED", "AWAITING_USER_INPUT">>,
     STOPPED |-> <<"INIT", "STOPPED">>]

IGNORED_TASK_STATE_MAP ==
    [PAUSED  |-> <<"INIT", "PAUSED", "STOPPED", "FINISHED", "AWAITING_USER_INPUT">>,
     RUNNING |-> <<"INIT", "RUNNING", "STOPPED", "FINISHED", "AWAITING_USER_INPUT">>,
     STOPPED |-> <<"INIT", "STOPPED", "FINISHED">>]

\* dict.get(key, default)
DictGet(d, key, default) == IF key \in DOMAIN d THEN d[key] ELSE default

\* x in lst, for a Python list
InList(x, lst) == \E i \in 1..Len(lst) : lst[i] = x

\* the messages send_error is called with
ErrInvalidAction == "Invalid action"
ErrNoAgent == "No agent started."
ErrNotRecognized == "Current task state not recognized."
\* (the source quotes the URL in backquotes, which a TLA+ string cannot hold)
ErrCreateController == "Error creating controller. Please check Docker is running and visit 'https://opendevin.github.io/OpenDevin/modules/usage/troubleshooting' for more debugging information.."

(* ------------------------------------------------------------------ *)
(* Process-wide configuration and the INIT request's args               *)
(* ------------------------------------------------------------------ *)
\* config.get(key): the process-wide defaults
config ==
    [agent          |-> "MonologueAgent",
     model          |-> "gpt-3.5-turbo",
     api_key        |-> "cfg-key",
     base_url       |-> "cfg-url",
     max_iterations |-> "100",
     max_chars      |-> "5000000"]

\* the agent classes Agent.get_cls resolves; any other name raises
RegisteredAgents == {"MonologueAgent", "X"}

\* the decimal strings int() is applied to in the model, with their values
IntTable == [s \in {"100", "5000000", "5", "7"} |->
                CASE s = "100" -> 100 [] s = "5000000" -> 5000000
                  [] s = "5" -> 5 [] s = "7" -> 7]

\* int(x) raises ValueError unless x is a decimal string
IntRaises(x) == x \notin DOMAIN IntTable
IntOf(x) == IntTable[x]

\* the values a client sends under each key of args: an empty string, a registered and
\* an unregistered agent class, a model name, a non-numeric bound
ArgValues ==
    [agent          |-> {"", "X", "Bad"},
     model          |-> {"", "m"},
     max_iterations |-> {"abc"}]

\* every args mapping over a subset of the keys of ArgValues
ArgMaps ==
    UNION { { m \in [K -> UNION {ArgValues[k] : k \in K}] :
                \A k \in K : m[k] \in ArgValues[k] } : K \in SUBSET DOMAIN ArgValues }

\* the data of an INIT request: with or without the key 'args'
StartEvents == {EmptyMap} \cup { [args |-> m] : m \in ArgMaps }

\* the data of any other request
ActionData == {[args |-> [command |-> "ls"]]}

\* the action names a client sends: absent, empty, INIT, a generic action
ActionNames == {None, "", ActionType_INIT, "run"}

\* a variant of RemoveEmpty that keeps the entries whose value is the empty string
RemoveEmpty_keeps_empty(d) == d

\* {key: value for key, value in d.items() if value != ''}
RemoveEmpty(d) == [k \in {j \in DOMAIN d : d[j] /= ""} |-> d[k]]

\* a variant of get_arg_or_default that ignores the per-request value
get_arg_or_default_config_only(_args, key) == config[key]

\* _args.get(key, config.get(key))
get_arg_or_default(_args, key) == DictGet(_args, key, config[key])

(* ------------------------------------------------------------------ *)
(* Events and the EventStream                                           *)
(* ------------------------------------------------------------------ *)
\* AgentStateChangedObservation('', agent_state), not yet stamped with a source
AgentStateChangedObservation(agent_state) ==
    [cls |-> "AgentStateChangedObservation", val |-> agent_state,
     args |-> EmptyMap, source |-> None]

\* action_from_dict(action_dict): the typed Action named by the discriminator
action_from_dict(action_dict) ==
    [cls |-> "Action", val |-> action_dict["action"],
     args |-> DictGet(action_dict, "args", EmptyMap), source |-> None]

\* the events the controller's agent loop publishes on the shared stream
AgentEvents ==
    { [cls |-> "NullAction", val |-> "null", args |-> EmptyMap, source |-> None],
      [cls |-> "NullObservation", val |-> "null", args |-> EmptyMap, source |-> None],
      [cls |-> "CmdOutputObservation", val |-> "run", args |-> EmptyMap, source |-> None] }

\* event.to_dict(): the wire form, discriminator and args without the source tag
to_dict(event) ==
    IF event.cls \in {"Action", "NullAction"}
    THEN [action |-> event.val, args |-> event.args]
    ELSE [observation |-> event.val, args |-> event.args]

\* a variant of on_event without the two isinstance tests
on_event_forwards_null(event) ==
    IF event.source = "agent" THEN << to_dict(event) >> ELSE <<>>

\* a variant of on_event without the test of the source tag
on_event_echoes_user(event) ==
    IF event.cls = "NullAction" THEN <<>>
    ELSE IF event.cls = "NullObservation" THEN <<>>
    ELSE << to_dict(event) >>

\* on_event(event): what the subscriber callback sends to the client
on_event(event) ==
    IF event.cls = "NullAction" THEN <<>>
    ELSE IF event.cls = "NullObservation" THEN <<>>
    ELSE IF event.source = "agent" THEN << to_dict(event) >>
    ELSE <<>>

(* ------------------------------------------------------------------ *)
(* State                                                                *)
(* ------------------------------------------------------------------ *)
VARIABLES
    controller,   \* self.controller: NoController or the AgentController held
    built,        \* number of AgentController objects constructed for this session
    sandbox,      \* sandbox[i]: calls of sandbox.close() on the i-th controller built
    agent_task,   \* self.agent_task: None or the running task
    cancels,      \* calls of agent_task.cancel()
    events,       \* self.event_stream: the log of published events, in order
    sent,         \* what session_manager.send delivered to the client, in order
    delivered,    \* the events the stream has run a subscriber callback on, in order
    subscribers,  \* the callbacks subscribed to self.event_stream, in order
    errors,       \* what session_manager.send_error delivered during the last step
    last          \* the last step: operation, arguments, and the state it started in

vars == << controller, built, sandbox, agent_task, cancels, events, sent, delivered,
          subscribers, errors, last >>

\* self.controller is None
NoController == [id |-> 0]

\* what a step records about itself; fields a step has no use for keep these values
NoStep ==
    [op |-> "idle", action |-> "-", data |-> EmptyMap, new_state |-> "-", cur |-> "-",
     llm_ok |-> TRUE, ctor_ok |-> TRUE, raised |-> FALSE,
     fields |-> EmptyMap, wire |-> EmptyMap,
     pre |-> [controller |-> NoController, built |-> 0, sandbox |-> <<>>,
              agent_task |-> None, cancels |-> 0, events |-> <<>>, sent |-> <<>>]]

\* the record of a step that starts in the current state; pre is that state
Step(op) ==
    [NoStep EXCEPT !.op = op,
                   !.pre = [controller |-> controller, built |-> built, sandbox |-> sandbox,
                            agent_task |-> agent_task, cancels |-> cancels,
                            events |-> events, sent |-> sent]]

\* a variant of initial_subscribers in which __init__ does not subscribe on_event
initial_subscribers_none == <<>>

\* self.event_stream.subscribe(self.on_event): the subscribers of the fresh stream
initial_subscribers == << "on_event" >>

\* AgentUnit.__init__: a fresh EventStream with on_event subscribed, no controller, no task
Init ==
    /\ controller = NoController
    /\ built = 0
    /\ sandbox = [i \in 1..MaxControllers |-> 0]
    /\ agent_task = None
    /\ cancels = 0
    /\ events = <<>>
    /\ sent = <<>>
    /\ delivered = <<>>
    /\ subscribers = initial_subscribers
    /\ errors = <<>>
    /\ last = NoStep

\* what the callbacks subs, each of them on_event, send when run on event in turn
RECURSIVE notify(_, _)
notify(subs, event) ==
    IF subs = <<>> THEN <<>> ELSE on_event(event) \o notify(Tail(subs), event)

\* event_stream.add_event(event, source): stamp the source, append to the log, and run
\* every subscriber callback on the event, in subscription order, before returning
add_event(event, source) ==
    LET stamped == [event EXCEPT !.source = source] IN
    /\ Len(events) < MaxEvents
    /\ events' = Append(events, stamped)
    /\ sent' = sent \o notify(subscribers, stamped)
    /\ delivered' = delivered \o [i \in 1..Len(subscribers) |-> stamped]
    /\ UNCHANGED subscribers

\* a variant of send_error that delivers nothing to the client
send_error_dropped(message) == errors' = <<>>

\* send_error(message)
send_error(message) == errors' = << message >>

\* a variant of init_done that announces RUNNING instead of INIT
init_done_announces_running(ctl) ==
    IF ctl = NoController
    THEN /\ send_error(ErrNoAgent)
         /\ UNCHANGED << events, sent, delivered, subscribers >>
    ELSE /\ add_event(AgentStateChangedObservation("RUNNING"), "user")
         /\ errors' = <<>>

\* init_done(), run with the controller handle ctl that create_controller has just set
init_done(ctl) ==
    IF ctl = NoController
    THEN /\ send_error(ErrNoAgent)
         /\ UNCHANGED << events, sent, delivered, subscribers >>
    ELSE /\ add_event(AgentStateChangedObservation("INIT"), "user")
         /\ errors' = <<>>

\* a variant of except_branch that also drops the controller handle
except_branch_resets_handle(step) ==
    /\ errors' = << ErrCreateController >>
    /\ last' = step
    /\ controller' = NoController
    /\ UNCHANGED << built, sandbox, agent_task, cancels, events, sent, delivered, subscribers >>

\* the except branch of create_controller: the assignment to self.controller never
\* happened, the error is reported and the handler returns
except_branch(step) ==
    /\ send_error(ErrCreateController)
    /\ last' = step
    /\ UNCHANGED << controller, built, sandbox, agent_task, cancels, events, sent, delivered, subscribers >>

\* create_controller(start_event); llm_ok and ctor_ok are the outcomes of the two
\* external constructors, LLM(...) and Agent.get_cls(agent_cls)(llm) / AgentController(...)
create_controller(start_event, llm_ok, ctor_ok) ==
    LET args == RemoveEmpty(DictGet(start_event, "args", EmptyMap))
        agent_cls == get_arg_or_default(args, "agent")
        model == get_arg_or_default(args, "model")
        api_key == get_arg_or_default(args, "api_key")
        api_base == config["base_url"]
        max_iterations == get_arg_or_default(args, "max_iterations")
        max_chars == get_arg_or_default(args, "max_chars")
        llm == [model |-> model, api_key |-> api_key, base_url |-> api_base]
        step == [Step("dispatch") EXCEPT !.action = ActionType_INIT, !.data = start_event,
                                         !.llm_ok = llm_ok, !.ctor_ok = ctor_ok]
    IN
    IF ~llm_ok
    THEN \* LLM(...) is called before the try: its exception leaves the handler
         /\ last' = [step EXCEPT !.raised = TRUE]
         /\ errors' = <<>>
         /\ UNCHANGED << controller, built, sandbox, agent_task, cancels, events, sent, delivered, subscribers >>
    ELSE IF \/ agent_cls \notin RegisteredAgents
            \/ ~ctor_ok
            \/ IntRaises(max_iterations)
            \/ IntRaises(max_chars)
    THEN except_branch(step)
    ELSE /\ built < MaxControllers
         /\ built' = built + 1
         /\ controller' = [id |-> built + 1, agent |-> agent_cls, llm |-> llm,
                           max_iterations |-> IntOf(max_iterations),
                           max_chars |-> IntOf(max_chars)]
         /\ init_done(controller')
         /\ last' = step
         /\ UNCHANGED << sandbox, agent_task, cancels >>

\* a variant of merge_action that starts from an empty dict instead of a copy of data
merge_action_drops_data(data, action) == [k \in {"action"} |-> action]

\* action_dict = data.copy(); action_dict['action'] = action
merge_action(data, action) ==
    [k \in DOMAIN data \cup {"action"} |-> IF k = "action" THEN action ELSE data[k]]

\* dispatch(action, data)
dispatch(action, data, llm_ok, ctor_ok) ==
    IF action = None
    THEN /\ send_error(ErrInvalidAction)
         /\ last' = [Step("dispatch") EXCEPT !.action = action, !.data = data]
         /\ UNCHANGED << controller, built, sandbox, agent_task, cancels, events, sent, delivered, subscribers >>
    ELSE IF action = ActionType_INIT
    THEN create_controller(data, llm_ok, ctor_ok)
    ELSE LET action_dict == merge_action(data, action)
             action_obj == action_from_dict(action_dict)
         IN /\ add_event(action_obj, "user")
            /\ errors' = <<>>
            /\ last' = [Step("dispatch") EXCEPT !.action = action, !.data = data]
            /\ UNCHANGED << controller, built, sandbox, agent_task, cancels >>

\* a variant of valid_from that looks the target state up in the other table
valid_from_wrong_table(new_state) == DictGet(IGNORED_TASK_STATE_MAP, new_state, <<>>)

\* VALID_TASK_STATE_MAP.get(new_state, [])
valid_from(new_state) == DictGet(VALID_TASK_STATE_MAP, new_state, <<>>)

\* a variant of ignored_from that looks the target state up in the other table
ignored_from_wrong_table(new_state) == DictGet(VALID_TASK_STATE_MAP, new_state, <<>>)

\* a variant of ignored_from whose default for a missing row is the row of STOPPED
ignored_from_wrong_default(new_state) ==
    DictGet(IGNORED_TASK_STATE_MAP, new_state, IGNORED_TASK_STATE_MAP["STOPPED"])

\* IGNORED_TASK_STATE_MAP.get(new_state, [])
ignored_from(new_state) == DictGet(IGNORED_TASK_STATE_MAP, new_state, <<>>)

\* set_agent_state(new_state); cur_state is what controller.get_agent_state() returns,
\* the state of the external controller at the time of the call
set_agent_state(new_state, cur_state) ==
    LET step == [Step("set_agent_state") EXCEPT !.new_state = new_state] IN
    IF controller = NoController
    THEN /\ send_error(ErrNoAgent)
         /\ last' = step
         /\ UNCHANGED << controller, built, sandbox, agent_task, cancels, events, sent, delivered, subscribers >>
    ELSE /\ last' = [step EXCEPT !.cur = cur_state]
         /\ UNCHANGED << controller, built, sandbox, agent_task, cancels >>
         /\ IF InList(cur_state, valid_from(new_state))
            THEN /\ add_event(AgentStateChangedObservation(new_state), "user")
                 /\ errors' = <<>>
            ELSE IF InList(cur_state, ignored_from(new_state))
            THEN /\ add_event(AgentStateChangedObservation(new_state), "user")
                 /\ errors' = <<>>
            ELSE /\ send_error(ErrNotRecognized)
                 /\ UNCHANGED << events, sent, delivered, subscribers >>

\* a variant of close that also drops the controller handle
close_drops_handle ==
    /\ agent_task /= None => cancels < MaxCloses
    /\ controller /= NoController => sandbox[controller.id] < MaxCloses
    /\ cancels' = IF agent_task /= None THEN cancels + 1 ELSE cancels
    /\ sandbox' = IF controller /= NoController
                  THEN [sandbox EXCEPT ![controller.id] = @ + 1]
                  ELSE sandbox
    /\ controller' = NoController
    /\ errors' = <<>>
    /\ last' = Step("close")
    /\ UNCHANGED << built, agent_task, events, sent, delivered, subscribers >>

\* close()
close ==
    /\ agent_task /= None => cancels < MaxCloses
    /\ controller /= NoController => sandbox[controller.id] < MaxCloses
    /\ cancels' = IF agent_task /= None THEN cancels + 1 ELSE cancels
    /\ sandbox' = IF controller /= NoController
                  THEN [sandbox EXCEPT ![controller.id] = @ + 1]
                  ELSE sandbox
    /\ errors' = <<>>
    /\ last' = Step("close")
    /\ UNCHANGED << controller, built, agent_task, events, sent, delivered, subscribers >>

\* the owner of the session stores the task that runs the agent in agent_task
start_task ==
    /\ controller /= NoController
    /\ agent_task = None
    /\ agent_task' = "task"
    /\ errors' = <<>>
    /\ last' = Step("start_task")
    /\ UNCHANGED << controller, built, sandbox, cancels, events, sent, delivered, subscribers >>

\* a controller of this session publishes an event on the stream it was constructed with
agent_publish(event) ==
    /\ built > 0
    /\ add_event(event, "agent")
    /\ errors' = <<>>
    /\ last' = [Step("agent_publish") EXCEPT !.action = event.cls]
    /\ UNCHANGED << controller, built, sandbox, agent_task, cancels >>

\* the step has returned and the session waits for its next request: the record of
\* the finished step and the errors it sent are not part of the session's state
next_request ==
    /\ last.op /= "idle"
    /\ last' = NoStep
    /\ errors' = <<>>
    /\ UNCHANGED << controller, built, sandbox, agent_task, cancels, events, sent, delivered, subscribers >>

\* no step is in progress: the handlers of one session run one at a time
Ready == last.op = "idle"

Next ==
    \/ /\ Ready
       /\ \E action \in ActionNames \ {ActionType_INIT}, data \in ActionData :
             dispatch(action, data, TRUE, TRUE)
    \/ /\ Ready
       /\ \E data \in StartEvents, llm_ok \in BOOLEAN :
             \E ctor_ok \in (IF llm_ok THEN BOOLEAN ELSE {TRUE}) :
                dispatch(ActionType_INIT, data, llm_ok, ctor_ok)
    \/ /\ Ready
       /\ \E new_state \in AgentState :
             \E cur_state \in (IF controller = NoController THEN {"-"} ELSE AgentState) :
                set_agent_state(new_state, cur_state)
    \/ Ready /\ close
    \/ Ready /\ start_task
    \/ Ready /\ \E event \in AgentEvents : agent_publish(event)
    \/ next_request

Spec == Init /\ [][Next]_vars

(* ------------------------------------------------------------------ *)
(* The lifecycle state machine: C1 - C4                                 *)
(* ------------------------------------------------------------------ *)
\* the transition tables as the specification's section 4.3.2 states them; a target
\* state without a row has both sets empty
SpecValidFrom(new_state) ==
    CASE new_state = "PAUSED"  -> {"RUNNING"}
      [] new_state = "RUNNING" -> {"PAUSED"}
      [] new_state = "STOPPED" -> {"RUNNING", "PAUSED", "AWAITING_USER_INPUT"}
      [] OTHER -> {}

SpecIgnoredFrom(new_state) ==
    CASE new_state = "PAUSED"  -> {"INIT", "PAUSED", "STOPPED", "FINISHED", "AWAITING_USER_INPUT"}
      [] new_state = "RUNNING" -> {"INIT", "RUNNING", "STOPPED", "FINISHED", "AWAITING_USER_INPUT"}
      [] new_state = "STOPPED" -> {"INIT", "STOPPED", "FINISHED"}
      [] OTHER -> {}

\* the last step was one call set_agent_state made while a Controller was present
StateCallWithController ==
    last.op = "set_agent_state" /\ last.pre.controller /= NoController

\* the event AgentStateChanged(agent_state) tagged source "user"
UserStateChanged(agent_state) ==
    [cls |-> "AgentStateChangedObservation", val |-> agent_state,
     args |-> EmptyMap, source |-> "user"]

\* the step left everything but the EventStream log, the errors and its own record alone
OnlyLogTouched ==
    /\ controller = last.pre.controller
    /\ built = last.pre.built
    /\ sandbox = last.pre.sandbox
    /\ agent_task = last.pre.agent_task
    /\ cancels = last.pre.cancels

\* the step left the whole session state alone
NothingTouched ==
    /\ OnlyLogTouched
    /\ events = last.pre.events
    /\ sent = last.pre.sent

\* C1: with a Controller present, a call set_agent_state(new_state) made while the
\* controller's state is in valid_from[new_state] publishes exactly one event,
\* AgentStateChanged(new_state) tagged source "user", and sends no error.
C1_ValidTransitionPublishesOnce ==
    (StateCallWithController /\ last.cur \in SpecValidFrom(last.new_state))
        => /\ events = Append(last.pre.events, UserStateChanged(last.new_state))
           /\ errors = <<>>

\* a STOPPED request reached the controller while it awaited user input, and published
C1_Witness ==
    /\ StateCallWithController
    /\ last.new_state = "STOPPED" /\ last.cur = "AWAITING_USER_INPUT"
    /\ Len(events) = Len(last.pre.events) + 1

\* C2: with a Controller present, a call set_agent_state(new_state) made while the
\* controller's state is in ignored_from[new_state] publishes exactly one event, the same
\* AgentStateChanged(new_state) tagged "user" that the valid branch publishes, and does
\* nothing else: no error, nothing forwarded, controller handle and agent task unchanged.
C2_IgnoredTransitionPublishesSameEvent ==
    (StateCallWithController /\ last.cur \in SpecIgnoredFrom(last.new_state))
        => /\ events = Append(last.pre.events, UserStateChanged(last.new_state))
           /\ errors = <<>>
           /\ sent = last.pre.sent
           /\ OnlyLogTouched

\* a PAUSED request reached a controller that had finished, with a task in flight
C2_Witness ==
    /\ StateCallWithController
    /\ last.new_state = "PAUSED" /\ last.cur = "FINISHED"
    /\ last.pre.agent_task /= None
    /\ Len(events) = Len(last.pre.events) + 1

\* C3: with a Controller present, a call set_agent_state(new_state) made while the
\* controller's state is in neither table for new_state (so for every new_state without
\* a row) publishes no event and reports "Current task state not recognized."
C3_UnrecognizedTransitionReportsError ==
    (/\ StateCallWithController
     /\ last.cur \notin SpecValidFrom(last.new_state)
     /\ last.cur \notin SpecIgnoredFrom(last.new_state))
        => /\ events = last.pre.events
           /\ errors = << ErrNotRecognized >>

\* a FINISHED request, a target without a row, was refused with events already logged
C3_Witness ==
    /\ StateCallWithController
    /\ last.new_state = "FINISHED" /\ last.cur = "RUNNING"
    /\ errors = << ErrNotRecognized >>
    /\ Len(events) > 0

\* C4: without a Controller, set_agent_state(new_state) reports "No agent started." for
\* every new_state, publishes no event and leaves the session state unchanged.
C4_NoControllerReportsNoAgent ==
    (last.op = "set_agent_state" /\ last.pre.controller = NoController)
        => /\ errors = << ErrNoAgent >>
           /\ NothingTouched

\* a RUNNING request arrived before any Controller, after a generic request was logged
C4_Witness ==
    /\ last.op = "set_agent_state" /\ last.pre.controller = NoController
    /\ last.new_state = "RUNNING"
    /\ Len(events) > 0
    /\ errors = << ErrNoAgent >>

(* ------------------------------------------------------------------ *)
(* Requests and the controller bootstrap: C5 - C7                       *)
(* ------------------------------------------------------------------ *)
\* the last step was a dispatch of INIT
InitCall == last.op = "dispatch" /\ last.action = ActionType_INIT

\* the args of the last request, and whether it gives a non-empty value under key
RequestArgs == DictGet(last.data, "args", EmptyMap)
Requested(key) == key \in DOMAIN RequestArgs /\ RequestArgs[key] /= ""

\* the last step was a dispatch of INIT in which the LLM client was built and then the
\* agent or the controller could not be: the class is unknown, a constructor raised, or
\* a numeric bound does not parse
ConstructionRaised ==
    /\ InitCall
    /\ last.llm_ok
    /\ \/ ~last.ctor_ok
       \/ Requested("agent") /\ RequestArgs["agent"] \notin RegisteredAgents
       \/ Requested("max_iterations") /\ IntRaises(RequestArgs["max_iterations"])

\* the last step was a dispatch of INIT whose bootstrap succeeded
BootstrapSucceeded == InitCall /\ last.llm_ok /\ ~ConstructionRaised

\* C5: dispatch(action_name, data) with action_name None or the empty string reports
\* "Invalid action", publishes no event and leaves the log and the controller handle
\* unchanged. (Fails for the empty string: dispatch tests only "action is None".)
C5_AbsentOrEmptyActionIsInvalid ==
    (last.op = "dispatch" /\ last.action \in {None, ""})
        => /\ errors = << ErrInvalidAction >>
           /\ events = last.pre.events
           /\ controller = last.pre.controller

C7_SuccessfulInitBuildsController ==
    BootstrapSucceeded
        => /\ controller /= NoController
           /\ controller.id = last.pre.built + 1
           /\ built = last.pre.built + 1
           /\ Requested("agent") => controller.agent = RequestArgs["agent"]
           /\ Requested("model") => controller.llm.model = RequestArgs["model"]
           /\ events = Append(last.pre.events, UserStateChanged("INIT"))
           /\ errors = <<>>

\* INIT with args {agent: "X", model: "m"} succeeded
C7_Witness ==
    /\ BootstrapSucceeded
    /\ Requested("agent") /\ RequestArgs["agent"] = "X"
    /\ Requested("model") /\ RequestArgs["model"] = "m"
    /\ controller /= NoController

(* ------------------------------------------------------------------ *)
(* Teardown, controller count and error propagation: C8 - C10           *)
(* ------------------------------------------------------------------ *)
\* the controllers built for this session whose sandbox has not been released
LiveControllers == { i \in 1..built : sandbox[i] = 0 }

\* C8: after close() on a session with a Controller and an agent task in flight, the
\* controller's sandbox has been released exactly once and cancellation of the task has
\* been requested exactly once, however many close() calls came before.
\* (Fails on the second close(): close has no guard, so both happen again.)
C8_CloseReleasesExactlyOnce ==
    (/\ last.op = "close"
     /\ last.pre.controller /= NoController
     /\ last.pre.agent_task /= None)
        => /\ sandbox[controller.id] = 1
           /\ cancels = 1

\* C9: the session never has two Controllers constructed and unreleased.
\* (Fails after a second successful INIT: the first controller is replaced, not closed.)
C9_AtMostOneLiveController == Cardinality(LiveControllers) <= 1

\* the last step was a call of dispatch or set_agent_state that met one of the failures
\* a client can trigger
ExternalFailure ==
    \/ last.op = "dispatch" /\ last.action = None
    \/ InitCall /\ ~BootstrapSucceeded
    \/ last.op = "set_agent_state" /\ last.pre.controller = NoController
    \/ /\ StateCallWithController
       /\ last.cur \notin SpecValidFrom(last.new_state)
       /\ last.cur \notin SpecIgnoredFrom(last.new_state)

\* C10: no exception leaves dispatch or set_agent_state, and every failure a client can
\* trigger ends with an error message sent to the client.
\* (Fails when LLM(...) raises: it is called before the try of create_controller.)
C10_FailuresReportedNeverRaised ==
    last.op \in {"dispatch", "set_agent_state"}
        => /\ ~last.raised
           /\ ExternalFailure => errors /= <<>>

(* ------------------------------------------------------------------ *)
(* Outbound filtering: C11, C12                                         *)
(* ------------------------------------------------------------------ *)
\* the classes of the null events
NullClasses == {"NullAction", "NullObservation"}

\* the last step published one event; it is the last of the log
Published == Len(events) = Len(last.pre.events) + 1
PublishedEvent == events[Len(events)]

\* what the client must have received for a log: the wire form of each non-null event
\* tagged "agent", in the order of the log
RECURSIVE ForwardedOf(_)
ForwardedOf(log) ==
    IF log = <<>> THEN <<>>
    ELSE LET e == log[Len(log)]
             rest == ForwardedOf(SubSeq(log, 1, Len(log) - 1))
         IN IF e.cls \notin NullClasses /\ e.source = "agent"
            THEN Append(rest, to_dict(e))
            ELSE rest

\* C11: a NullAction or NullObservation is never forwarded to the client, whatever its
\* source tag: the step that publishes one sends nothing, the callback returns nothing
\* for one under either tag, and nothing the client received is the wire form of one.
C11_NullEventsNeverForwarded ==
    /\ (Published /\ PublishedEvent.cls \in NullClasses) => sent = last.pre.sent
    /\ \A e \in AgentEvents, src \in {"user", "agent"} :
          e.cls \in NullClasses => on_event([e EXCEPT !.source = src]) = <<>>
    /\ \A i \in 1..Len(sent) :
          sent[i] \notin { to_dict(e) : e \in { x \in AgentEvents : x.cls \in NullClasses } }

\* the controller published a NullObservation, tagged "agent", and nothing was sent
C11_Witness ==
    /\ last.op = "agent_publish"
    /\ Published
    /\ PublishedEvent.cls = "NullObservation" /\ PublishedEvent.source = "agent"
    /\ sent = <<>>

\* C12: every non-null event published is forwarded in wire form exactly once if its
\* source is "agent" and not at all if it is "user"; so nothing that dispatch, init_done
\* or set_agent_state publishes is ever sent to the client.
C12_AgentEventsForwardedOnceUserEventsNever ==
    /\ sent = ForwardedOf(events)
    /\ (Published /\ PublishedEvent.cls \notin NullClasses /\ PublishedEvent.source = "agent")
          => sent = Append(last.pre.sent, to_dict(PublishedEvent))
    /\ (Published /\ PublishedEvent.source = "user") => sent = last.pre.sent
    /\ last.op \in {"dispatch", "set_agent_state"} => sent = last.pre.sent

\* the controller's command output was forwarded; the orchestrator's own event, logged
\* before it, was not
C12_Witness ==
    /\ last.op = "agent_publish"
    /\ Published
    /\ PublishedEvent.cls = "CmdOutputObservation"
    /\ \E i \in 1..Len(events) : events[i].source = "user"
    /\ sent = << [observation |-> "run", args |-> EmptyMap] >>

(* ------------------------------------------------------------------ *)
(* Generic requests and retry after a failed bootstrap: C13, C14        *)
(* ------------------------------------------------------------------ *)
\* the last step was a dispatch of a non-empty action name other than INIT
GenericCall ==
    last.op = "dispatch" /\ last.action \notin {None, "", ActionType_INIT}

\* C13: dispatch(action_name, data) with a non-empty action_name other than INIT
\* publishes exactly one Action whose discriminator is action_name and whose args are
\* those of data, tagged source "user", with or without a Controller, sends no error
\* and leaves the controller handle unchanged.
C13_GenericDispatchPublishesOneAction ==
    GenericCall
        => /\ events = Append(last.pre.events,
                              [cls |-> "Action", val |-> last.action,
                               args |-> DictGet(last.data, "args", EmptyMap),
                               source |-> "user"])
           /\ errors = <<>>
           /\ controller = last.pre.controller
           /\ OnlyLogTouched

\* a "run" request was published in a session that has no Controller
C13_Witness ==
    /\ GenericCall
    /\ last.action = "run"
    /\ last.pre.controller = NoController
    /\ Published
    /\ PublishedEvent.args = [command |-> "ls"]

\* the last step was a dispatch of INIT that did not build a Controller: construction
\* raised, or the LLM client could not be built
FailedInit == InitCall /\ ~BootstrapSucceeded

\* the model's bounds leave room for one more Controller and one more event
RoomToInit == built < MaxControllers /\ Len(events) < MaxEvents

\* C14: a failed bootstrap leaves the session usable: it changes nothing in the
\* session's state, and whenever the session waits for a request (within the bounds) an
\* INIT whose construction succeeds and a generic request can both be processed; an
\* INIT that succeeds, after failures or not, builds the Controller and publishes
\* AgentStateChanged(INIT).
C14_FailedInitLeavesSessionUsable ==
    /\ FailedInit => NothingTouched
    /\ (Ready /\ RoomToInit)
          => /\ ENABLED dispatch(ActionType_INIT, EmptyMap, TRUE, TRUE)
             /\ ENABLED dispatch("run", [args |-> [command |-> "ls"]], TRUE, TRUE)
    /\ BootstrapSucceeded
          => /\ controller /= NoController
             /\ Published /\ PublishedEvent = UserStateChanged("INIT")

\* an INIT failed in construction after a generic request had been processed, in a
\* session that has no Controller and room for a retry
C14_Witness ==
    /\ ConstructionRaised
    /\ controller = NoController
    /\ RoomToInit
    /\ Len(events) > 0 /\ events[1].cls = "Action"

(* ------------------------------------------------------------------ *)
(* Order of publication and delivery: C15                               *)
(* ------------------------------------------------------------------ *)
\* C15: the events published on the session's stream are logged and delivered to the
\* subscriber in the order published, none reordered or dropped: a step keeps the log
\* it found as a prefix and appends at most one event, and when a publish by dispatch,
\* init_done or set_agent_state has returned, the callback has run on that event, so
\* the deliveries are the log.
C15_PublishedInOrderDeliveredBeforeReturn ==
    /\ delivered = events
    /\ last.op /= "idle"
          => /\ Len(events) \in {Len(last.pre.events), Len(last.pre.events) + 1}
             /\ SubSeq(events, 1, Len(last.pre.events)) = last.pre.events
    /\ (last.op \in {"dispatch", "set_agent_state"} /\ Published)
          => /\ PublishedEvent.source = "user"
             /\ delivered[Len(delivered)] = PublishedEvent

\* set_agent_state published a second orchestrator event after that of INIT; both
\* were delivered, in that order
C15_Witness ==
    /\ last.op = "set_agent_state"
    /\ Published
    /\ Len(events) = 2
    /\ events[1] = UserStateChanged("INIT")
    /\ delivered = << UserStateChanged("INIT"), UserStateChanged(last.new_state) >>

(* ------------------------------------------------------------------ *)
(* Resolution of the INIT arguments: C16                                *)
(* ------------------------------------------------------------------ *)
\* per key of args, the values of an INIT request whose bootstrap can succeed: the
\* empty string and one proper value; base_url is a key the code never reads
ResolveValues ==
    [agent          |-> {"", "X"},
     model          |-> {"", "m"},
     api_key        |-> {"", "k"},
     max_iterations |-> {"", "5"},
     max_chars      |-> {"", "7"},
     base_url       |-> {"", "u"}]

\* every args mapping over a subset of the keys of ResolveValues
ResolveArgMaps ==
    UNION { { m \in [K -> UNION {ResolveValues[k] : k \in K}] :
                \A k \in K : m[k] \in ResolveValues[k] } : K \in SUBSET DOMAIN ResolveValues }

\* a fresh session receives one INIT request, with any of these args, and both
\* constructors succeed
NextArgs ==
    /\ Ready
    /\ built = 0
    /\ \E m \in ResolveArgMaps : dispatch(ActionType_INIT, [args |-> m], TRUE, TRUE)

SpecArgs == Init /\ [][NextArgs]_vars

\* what a key must resolve to: the per-request value when present and not the empty
\* string, the configuration default otherwise
Expected(key) == IF Requested(key) THEN RequestArgs[key] ELSE config[key]

\* C16: in create_controller each of agent, model, api_key, max_iterations and max_chars
\* resolves to the per-request value when args has the key with a non-empty value and
\* to the configuration default when the key is absent or its value is the empty
\* string; the LLM base URL is the configuration value whatever args holds.
C16_ArgsResolveToRequestOrDefault ==
    (/\ InitCall
     /\ last.llm_ok /\ last.ctor_ok
     /\ Expected("agent") \in RegisteredAgents
     /\ ~IntRaises(Expected("max_iterations"))
     /\ ~IntRaises(Expected("max_chars")))
        => controller =
              [id |-> last.pre.built + 1,
               agent |-> Expected("agent"),
               llm |-> [model |-> Expected("model"),
                        api_key |-> Expected("api_key"),
                        base_url |-> config["base_url"]],
               max_iterations |-> IntOf(Expected("max_iterations")),
               max_chars |-> IntOf(Expected("max_chars"))]

\* an empty agent fell back to the default, model and max_iterations were taken from
\* the request, api_key was absent, and the base_url of the request was not used
C16_Witness ==
    /\ InitCall
    /\ RequestArgs = [agent |-> "", model |-> "m", max_iterations |-> "5", base_url |-> "u"]
    /\ controller /= NoController
    /\ controller.agent = "MonologueAgent"
    /\ controller.llm = [model |-> "m", api_key |-> "cfg-key", base_url |-> "cfg-url"]
    /\ controller.max_iterations = 5

(* ------------------------------------------------------------------ *)
(* Action.to_memory and the wire form: C17                              *)
(* ------------------------------------------------------------------ *)
\* discriminators of the requests; None stands for an Action instance that was
\* built without a discriminator
WireNames == {"run", "read", "write", "browse"}

\* per argument name, the values a request carries; "action" is an argument whose
\* name is that of the discriminator
WireValues ==
    [command |-> {"ls", "pwd"},
     path    |-> {"a", "b"},
     action  |-> {"x", "run"}]

\* every args mapping over a subset of the names of WireValues
WireArgMaps ==
    UNION { { m \in [K -> UNION {WireValues[k] : k \in K}] :
                \A k \in K : m[k] \in WireValues[k] } : K \in SUBSET DOMAIN WireValues }

\* the field set of the Action built from action_dict: the entries of its args and
\* the discriminator; when args has an entry named "action", args_win tells which of
\* the two values the field holds
action_fields(action_dict, args_win) ==
    LET m == DictGet(action_dict, "args", EmptyMap) IN
    [k \in DOMAIN m \cup {"action"} |->
        IF k \in DOMAIN m /\ (k /= "action" \/ args_win) THEN m[k] ELSE action_dict["action"]]

\* a variant of to_memory that reads the discriminator without removing it
to_memory_keeps_discriminator(d) ==
    IF "action" \in DOMAIN d
    THEN [raised |-> FALSE, wire |-> [action |-> d["action"], args |-> d]]
    ELSE [raised |-> TRUE, wire |-> EmptyMap]

\* Action.to_memory on the field set d of the instance: d.pop('action'), and
\* NotImplementedError when d has no such entry
to_memory(d) ==
    IF "action" \in DOMAIN d
    THEN [raised |-> FALSE,
          wire |-> [action |-> d["action"],
                    args |-> [k \in DOMAIN d \ {"action"} |-> d[k]]]]
    ELSE [raised |-> TRUE, wire |-> EmptyMap]

\* a request {action: a, args: m}, or with a = None the arguments m of an instance
\* built without a discriminator, is waiting to be converted
InitWire ==
    /\ controller = NoController
    /\ built = 0
    /\ sandbox = [i \in 1..MaxControllers |-> 0]
    /\ agent_task = None
    /\ cancels = 0
    /\ events = <<>>
    /\ sent = <<>>
    /\ delivered = <<>>
    /\ subscribers = initial_subscribers
    /\ errors = <<>>
    /\ \E a \in WireNames \cup {None}, m \in WireArgMaps :
          last = [NoStep EXCEPT !.op = "wire_input", !.action = a, !.data = [args |-> m]]

\* the Action with these fields is converted by to_memory
convert(fields) ==
    LET r == to_memory(fields) IN
    /\ last' = [last EXCEPT !.op = "to_memory", !.fields = fields,
                            !.raised = r.raised, !.wire = r.wire]
    /\ UNCHANGED << controller, built, sandbox, agent_task, cancels, events, sent,
                    delivered, subscribers, errors >>

\* dispatch lines 107-109 build the Action from the request; then it is converted
round_trip ==
    /\ last.op = "wire_input"
    /\ last.action /= None
    /\ \E args_win \in BOOLEAN :
          convert(action_fields(merge_action(last.data, last.action), args_win))

\* an Action instance that was given arguments but no discriminator is converted
convert_bare ==
    /\ last.op = "wire_input"
    /\ last.action = None
    /\ convert(last.data["args"])

NextWire ==
    \/ round_trip
    \/ convert_bare

SpecWire == InitWire /\ [][NextWire]_vars

\* the wire form is {action: <name>, args: <all other fields>}, args has no entry
\* named "action", and an instance without a discriminator raises
WireFormOfFields ==
    last.op = "to_memory"
        => /\ last.raised <=> "action" \notin DOMAIN last.fields
           /\ ~last.raised
                 => /\ last.wire["action"] = last.fields["action"]
                    /\ DOMAIN last.wire["args"] = DOMAIN last.fields \ {"action"}
                    /\ \A k \in DOMAIN last.wire["args"] :
                          last.wire["args"][k] = last.fields[k]

\* the request was {action: a, args: m} and converting the Action built from it gave
\* {action: a, args: m}
RoundTripExact ==
    /\ ~last.raised
    /\ last.wire = [action |-> last.action, args |-> last.data["args"]]

\* C17 as stated: the wire form is {action: <name>, args: <all other fields>} with no
\* "action" in args, every mapping {action: a, args: m} survives construction and
\* conversion exactly, and an Action without a discriminator raises.
C17_EveryMappingRoundTrips ==
    /\ WireFormOfFields
    /\ (last.op = "to_memory" /\ last.action /= None) => RoundTripExact

\* C17, amended: the wire form is {action: <name>, args: <all other fields>} with no
\* "action" in args, every mapping {action: a, args: m} whose m has no entry named
\* "action" survives construction and conversion exactly, and an Action without a
\* discriminator raises.
C17_MappingWithoutActionArgRoundTrips ==
    /\ WireFormOfFields
    /\ (last.op = "to_memory" /\ last.action /= None
           /\ "action" \notin DOMAIN last.data["args"]) => RoundTripExact

\* {action: "run", args: {command: "ls"}} came back exactly
C17_Witness ==
    /\ last.op = "to_memory"
    /\ last.action = "run"
    /\ last.data = [args |-> [command |-> "ls"]]
    /\ last.fields = [action |-> "run", command |-> "ls"]
    /\ last.wire = [action |-> "run", args |-> [command |-> "ls"]]

(* ------------------------------------------------------------------ *)
(* Coverage of the transition tables: C18                               *)
(* ------------------------------------------------------------------ *)
\* the elements of a Python list
Elements(lst) == { lst[i] : i \in 1..Len(lst) }

\* the target states that have a row in the tables, and those that have none
TargetsWithRow == {"PAUSED", "RUNNING", "STOPPED"}
TargetsWithoutRow == {"INIT", "AWAITING_USER_INPUT", "FINISHED"}

\* C18: for each target in {PAUSED, RUNNING, STOPPED} valid_from and ignored_from are
\* disjoint and together hold all six AgentStates, so with a Controller present a
\* request for such a target always publishes exactly one event and never reports
\* "Current task state not recognized."; for each target in {INIT,
\* AWAITING_USER_INPUT, FINISHED} both are empty, so the request always reports that
\* error and publishes nothing.
C18_TablesPartitionOrAreEmpty ==
    /\ \A t \in TargetsWithRow :
          /\ Elements(valid_from(t)) \cap Elements(ignored_from(t)) = {}
          /\ Elements(valid_from(t)) \cup Elements(ignored_from(t)) = AgentState
    /\ \A t \in TargetsWithoutRow :
          valid_from(t) = <<>> /\ ignored_from(t) = <<>>
    /\ (StateCallWithController /\ last.new_state \in TargetsWithRow)
          => /\ Published
             /\ PublishedEvent = UserStateChanged(last.new_state)
             /\ errors = <<>>
    /\ (StateCallWithController /\ last.new_state \in TargetsWithoutRow)
          => /\ events = last.pre.events
             /\ errors = << ErrNotRecognized >>

\* STOPPED was requested of a FINISHED controller and one event was published
C18_Witness ==
    /\ StateCallWithController
    /\ last.new_state = "STOPPED" /\ last.cur = "FINISHED"
    /\ Published
    /\ PublishedEvent = UserStateChanged("STOPPED")
    /\ errors = <<>>

(* ------------------------------------------------------------------ *)
(* The controller handle is never dropped: C19                          *)
(* ------------------------------------------------------------------ *)
\* the sandbox of the Controller the session holds has been released by close()
HeldControllerClosed == controller /= NoController /\ sandbox[controller.id] > 0

\* C19: once the session holds a Controller no step makes the handle absent again,
\* whether a dispatch, a later INIT that fails or succeeds, set_agent_state, an event
\* delivered to on_event, or close; close releases the sandbox and keeps the handle,
\* so a set_agent_state after close is answered from the tables, with an event for
\* every target that has a row, and never with "No agent started.".
C19_HandleNeverDropped ==
    [][ /\ controller /= NoController => controller' /= NoController
        /\ (last'.op = "close" /\ controller /= NoController)
              => /\ controller' = controller
                 /\ sandbox'[controller.id] = sandbox[controller.id] + 1
        /\ (last'.op = "set_agent_state" /\ HeldControllerClosed)
              => /\ errors' /= << ErrNoAgent >>
                 /\ last'.new_state \in TargetsWithRow
                       => /\ errors' = <<>>
                          /\ events' = Append(events, UserStateChanged(last'.new_state))
      ]_vars

\* after close released the sandbox of the held Controller, a RUNNING request
\* published its event
C19_Witness ==
    /\ last.op = "set_agent_state"
    /\ last.new_state = "RUNNING"
    /\ last.pre.controller /= NoController
    /\ last.pre.sandbox[last.pre.controller.id] > 0
    /\ controller = last.pre.controller
    /\ Published
    /\ PublishedEvent = UserStateChanged("RUNNING")
    /\ errors = <<>>

(* ------------------------------------------------------------------ *)
(* State announcements need a Controller: C20                           *)
(* ------------------------------------------------------------------ *)
\* the event is an AgentStateChanged the orchestrator published: init_done and
\* set_agent_state tag theirs "user"
ByOrchestrator(e) == e.cls = "AgentStateChangedObservation" /\ e.source = "user"

\* the AgentStateChanged events of the log that the orchestrator published, in order
Announcements == SelectSeq(events, ByOrchestrator)

\* C20: every AgentStateChanged event of the log that the orchestrator published was
\* published while the session held a Controller: the log has none as long as no INIT
\* has succeeded, the step that publishes one holds a Controller, and the first of
\* them is AgentStateChanged(INIT).
C20_AnnouncementsOnlyWithController ==
    /\ (built = 0 \/ controller = NoController) => Announcements = <<>>
    /\ (Published /\ ByOrchestrator(PublishedEvent))
          => /\ controller /= NoController
             /\ last.op = "set_agent_state" => last.pre.controller /= NoController
             /\ last.op = "dispatch" => InitCall /\ BootstrapSucceeded
    /\ Announcements /= <<>> => Announcements[1] = UserStateChanged("INIT")

\* the log holds the announcement of INIT and after it one of PAUSED
C20_Witness ==
    /\ controller /= NoController
    /\ Announcements = << UserStateChanged("INIT"), UserStateChanged("PAUSED") >>

====
